---- MODULE Spec2Model ----
(***************************************************************************)
(* Model of morph_seq2seq/data.py: Dataset, ValidationDataset and          *)
(* InferenceDataset.  Strings are sequences of one-character strings, a    *)
(* dict is a function from keys to values, and the two defaultdicts of a   *)
(* Dataset live in a heap so that aliasing (share_vocab, the vocabularies  *)
(* a ValidationDataset takes from its training Dataset) is by reference.   *)
(***************************************************************************)
EXTENDS Integers, Sequences, FiniteSets, TLC

VARIABLES cfg, heap, ds, pc, stream, error, ret, it, inf

vars == <<cfg, heap, ds, pc, stream, error, ret, it, inf>>

(* ---------------- bounds ---------------- *)
MaxLines == 2
MaxValLines == 1
MaxBatchLines == 3
MaxBatch == 2
MaxInfLines == 3

(* ---------------- characters, tokens and input lines ---------------- *)
TAB == "\t"
NL == "\n"
SP == " "

PAD == 0
SOS == 1
EOS == 2
UNK == 3

tokPAD == <<"P", "A", "D">>
tokSOS == <<"S", "O", "S">>
tokEOS == <<"E", "O", "S">>
tokUNK == <<"U", "N", "K">>

Dataset_CONSTANTS ==
    (tokPAD :> PAD) @@ (tokSOS :> SOS) @@ (tokEOS :> EOS) @@ (tokUNK :> UNK)

UNKMarker == <<"<", "U", "N", "K", ">">>

Fields == { <<"a">>, <<"P", "A", "D", SP, "b">> }

WellFormedLines == { s \o <<TAB>> \o t \o <<NL>> : s \in Fields, t \in Fields }

MalformedLines == { <<"a", SP, "b", NL>>, <<"a", TAB, "b", TAB, "a", NL>> }

Lines == WellFormedLines \cup MalformedLines

StreamsUpTo(n) == UNION { [1..k -> Lines] : k \in 0..n }

\* the streams the batching operations are run on: well-formed lines whose
\* source and target lengths differ from line to line
BatchLines == { <<"a", TAB, "a", NL>>,
                <<"a", TAB, "P", "A", "D", SP, "b", NL>>,
                <<"P", "A", "D", SP, "b", TAB, "a", NL>> }

BatchStreamsUpTo(n) == UNION { [1..k -> BatchLines] : k \in 0..n }

\* inference input: raw lines of 2, 2, 5 and 8 characters; one holds a tab and
\* one is a last line without its newline
InfLines == { <<"a", "b", NL>>, <<"b", "a">>, <<"a", TAB, "b", SP, "a", NL>>,
              <<"a", "b", SP, "a", "b", SP, "a", "b", NL>> }

InfStreamsUpTo(n) == UNION { [1..k -> InfLines] : k \in 0..n }

\* the file named by cfg.src_vocab_file: two-column lines, or a line without a tab
VocabFiles == { << <<"a", TAB, "b", NL>>, <<"b", TAB, "a", NL>> >>,
                << <<"a", TAB, "b", NL>>, <<"a", TAB, "a", NL>> >>,
                << <<"a", TAB, "b", NL>>, <<"b", NL>> >> }

(* ---------------- str methods ---------------- *)
RECURSIVE rstrip(_, _)
rstrip(s, c) ==
    IF Len(s) > 0 /\ s[Len(s)] = c THEN rstrip(SubSeq(s, 1, Len(s) - 1), c) ELSE s

RECURSIVE split(_, _)
split(s, sep) ==
    IF \E i \in 1..Len(s) : s[i] = sep
    THEN LET i == CHOOSE k \in 1..Len(s) :
                     s[k] = sep /\ \A j \in 1..(k - 1) : s[j] # sep
         IN  <<SubSeq(s, 1, i - 1)>> \o split(SubSeq(s, i + 1, Len(s)), sep)
    ELSE <<s>>

(* ---------------- dict and defaultdict ---------------- *)
\* d.get(k, default)
dict_get(d, k, default) == IF k \in DOMAIN d THEN d[k] ELSE default

\* d[k] = v
dict_setitem(d, k, v) == [x \in DOMAIN d \cup {k} |-> IF x = k THEN v ELSE d[x]]

\* defaultdict(lambda: len(d)).__getitem__(k): the dict after the access
defaultdict_after(d, k) ==
    IF k \in DOMAIN d THEN d ELSE dict_setitem(d, k, Cardinality(DOMAIN d))

\* [d[c] for c in toks] on a defaultdict: <<dict after, ids>>
RECURSIVE lookup_all(_, _)
lookup_all(d, toks) ==
    IF toks = <<>> THEN <<d, <<>>>>
    ELSE LET d1 == defaultdict_after(d, Head(toks))
             r  == lookup_all(d1, Tail(toks))
         IN  <<r[1], <<d1[Head(toks)]>> \o r[2]>>

\* [d.get(c, UNK) for c in toks]
get_all(d, toks) == [j \in 1..Len(toks) |-> dict_get(d, toks[j], UNK)]

\* [v] * n ; a non-positive n gives the empty list
Repeat(v, n) == [j \in 1..n |-> v]

SeqMax(s) == CHOOSE m \in { s[j] : j \in 1..Len(s) } : \A j \in 1..Len(s) : s[j] <= m

(* ---------------- objects ---------------- *)
Objs == {"train", "val"}

NoFields ==
    [src_vocab |-> 0, tgt_vocab |-> 0, samples |-> <<>>, raw_samples |-> <<>>,
     src_maxlen |-> 0, tgt_maxlen |-> 0, src_seqlen |-> <<>>, tgt_seqlen |-> <<>>,
     frozen_vocab |-> FALSE, has_tgt_inv_vocab |-> FALSE, tgt_inv_vocab |-> <<>>]

NoIter == [state |-> "none", self |-> "train", batch_size |-> 0, batch_count |-> 0,
           i |-> 0, batches |-> <<>>]

NoInf == [state |-> "none", stream |-> <<>>, src_vocab_file |-> <<>>, src_vocab |-> <<>>,
          raw_samples |-> <<>>, samples |-> <<>>, len_mapping |-> <<>>, error |-> "none"]

NoRet == [op |-> "none"]

Init ==
    /\ cfg \in [share_vocab : BOOLEAN, input_size : {0}, output_size : {0}]
    /\ heap = <<>>
    /\ ds = [o \in Objs |-> NoFields]
    /\ pc = [o \in Objs |-> "new"]
    /\ stream \in { [o \in Objs |-> IF o = "train" THEN s ELSE <<>>] : s \in StreamsUpTo(MaxLines) }
    /\ error = [o \in Objs |-> "none"]
    /\ ret = NoRet
    /\ it = NoIter
    /\ inf = NoInf

(* ---------------- Dataset.__init__ up to the call of load ---------------- *)
\* Dataset.__init__ that ignores cfg.share_vocab and always makes two mappings
Dataset__init__separate ==
    /\ pc["train"] = "new"
    /\ heap' = [r \in 1..2 |-> Dataset_CONSTANTS]
    /\ ds' = [ds EXCEPT !["train"] = [NoFields EXCEPT !.src_vocab = 1, !.tgt_vocab = 2]]
    /\ pc' = [pc EXCEPT !["train"] = "reading"]
    /\ UNCHANGED <<cfg, stream, error, ret, it, inf>>

\* lines 29-37, then lines 59-60 of load_data_from_stream
Dataset__init__ ==
    /\ pc["train"] = "new"
    /\ LET nrefs == IF cfg.share_vocab THEN 1 ELSE 2
       IN  /\ heap' = [r \in 1..nrefs |-> Dataset_CONSTANTS]
           /\ ds' = [ds EXCEPT !["train"] =
                        [NoFields EXCEPT !.src_vocab = 1, !.tgt_vocab = nrefs]]
    /\ pc' = [pc EXCEPT !["train"] = "reading"]
    /\ UNCHANGED <<cfg, stream, error, ret, it, inf>>

(* ---------------- load_data_from_stream ---------------- *)
\* one iteration of the loop of lines 61-65
ReadLine(self) ==
    /\ pc[self] = "reading"
    /\ Len(ds[self].raw_samples) < Len(stream[self])
    /\ LET line  == stream[self][Len(ds[self].raw_samples) + 1]
           parts == split(rstrip(line, NL), TAB)
       IN  IF Len(parts) # 2
           THEN /\ error' = [error EXCEPT ![self] = "ValueError"]
                /\ pc' = [pc EXCEPT ![self] = "failed"]
                /\ UNCHANGED ds
           ELSE /\ ds' = [ds EXCEPT ![self].raw_samples =
                             Append(@, <<split(parts[1], SP), split(parts[2], SP)>>)]
                /\ UNCHANGED <<error, pc>>
    /\ UNCHANGED <<cfg, heap, stream, ret, it, inf>>

\* lines 66-69, reached when the stream is exhausted
ComputeLengths(self) ==
    /\ pc[self] = "reading"
    /\ Len(ds[self].raw_samples) = Len(stream[self])
    /\ LET raw == ds[self].raw_samples
       IN  IF raw = <<>>
           THEN /\ error' = [error EXCEPT ![self] = "ValueError"]
                /\ pc' = [pc EXCEPT ![self] = "failed"]
                /\ UNCHANGED ds
           ELSE /\ ds' = [ds EXCEPT
                      ![self].src_maxlen = SeqMax([j \in 1..Len(raw) |-> Len(raw[j][1])]),
                      ![self].tgt_maxlen = SeqMax([j \in 1..Len(raw) |-> Len(raw[j][2])]),
                      ![self].src_seqlen = [j \in 1..Len(raw) |-> Len(raw[j][1])],
                      ![self].tgt_seqlen = [j \in 1..Len(raw) |-> Len(raw[j][2]) + 1]]
                /\ pc' = [pc EXCEPT ![self] = "encoding"]
                /\ UNCHANGED error
    /\ UNCHANGED <<cfg, heap, stream, ret, it, inf>>

\* the sample appended by lines 75-80 (frozen_vocab is True)
EncodeFrozen(h, f, src, tgt) ==
    <<get_all(h[f.src_vocab], src) \o Repeat(PAD, f.src_maxlen - Len(src)),
      get_all(h[f.tgt_vocab], tgt) \o <<EOS>> \o Repeat(PAD, f.tgt_maxlen - Len(tgt))>>

\* the heap after the source comprehension of line 83
HeapAfterSrc(h, f, src) ==
    [h EXCEPT ![f.src_vocab] = lookup_all(h[f.src_vocab], src)[1]]

\* the heap after the target comprehension of line 85
HeapAfterTgt(h, f, src, tgt) ==
    LET h1 == HeapAfterSrc(h, f, src)
    IN  [h1 EXCEPT ![f.tgt_vocab] = lookup_all(h1[f.tgt_vocab], tgt)[1]]

\* lines 82-87 with the target padded as if tgt_maxlen already counted the EOS
EncodeGrowing_short(h, f, src, tgt) ==
    LET h1 == HeapAfterSrc(h, f, src)
    IN  <<lookup_all(h[f.src_vocab], src)[2] \o Repeat(PAD, f.src_maxlen - Len(src)),
          lookup_all(h1[f.tgt_vocab], tgt)[2] \o <<EOS>>
              \o Repeat(PAD, f.tgt_maxlen - Len(tgt) - 1)>>

\* the sample appended by lines 82-87 (growing vocabulary)
EncodeGrowing(h, f, src, tgt) ==
    LET h1 == HeapAfterSrc(h, f, src)
    IN  <<lookup_all(h[f.src_vocab], src)[2] \o Repeat(PAD, f.src_maxlen - Len(src)),
          lookup_all(h1[f.tgt_vocab], tgt)[2] \o <<EOS>>
              \o Repeat(PAD, f.tgt_maxlen - Len(tgt))>>

\* one iteration of the loop of lines 73-87
EncodeSample(self) ==
    /\ pc[self] = "encoding"
    /\ Len(ds[self].samples) < Len(ds[self].raw_samples)
    /\ LET f   == ds[self]
           raw == f.raw_samples[Len(f.samples) + 1]
       IN  IF f.frozen_vocab
           THEN /\ ds' = [ds EXCEPT ![self].samples =
                             Append(@, EncodeFrozen(heap, f, raw[1], raw[2]))]
                /\ UNCHANGED heap
           ELSE /\ ds' = [ds EXCEPT ![self].samples =
                             Append(@, EncodeGrowing(heap, f, raw[1], raw[2]))]
                /\ heap' = HeapAfterTgt(heap, f, raw[1], raw[2])
    /\ UNCHANGED <<cfg, pc, stream, error, ret, it, inf>>

\* line 42-43
update_config(c, h, f) ==
    [c EXCEPT !.input_size = Cardinality(DOMAIN h[f.src_vocab]),
              !.output_size = Cardinality(DOMAIN h[f.tgt_vocab])]

\* line 88, and for a Dataset the update_config() of line 39
FinishLoad(self) ==
    /\ pc[self] = "encoding"
    /\ Len(ds[self].samples) = Len(ds[self].raw_samples)
    /\ ds' = [ds EXCEPT ![self].tgt_maxlen = @ + 1]
    /\ cfg' = IF self = "train" THEN update_config(cfg, heap, ds[self]) ELSE cfg
    /\ pc' = [pc EXCEPT ![self] = "ready"]
    /\ UNCHANGED <<heap, stream, error, ret, it, inf>>

(* ---------------- ValidationDataset.__init__ ---------------- *)
\* no load is in progress and no generator is being consumed
Idle == /\ \A o \in Objs : pc[o] \notin {"reading", "encoding"}
        /\ it.state = "none"

\* ValidationDataset.__init__ that calls the load without frozen_vocab=True
ValidationDataset__init__growing(vstream) ==
    /\ Idle
    /\ pc["train"] = "ready"
    /\ pc["val"] = "new"
    /\ ds' = [ds EXCEPT !["val"] =
                 [NoFields EXCEPT !.src_vocab = ds["train"].src_vocab,
                                  !.tgt_vocab = ds["train"].tgt_vocab]]
    /\ stream' = [stream EXCEPT !["val"] = vstream]
    /\ pc' = [pc EXCEPT !["val"] = "reading"]
    /\ UNCHANGED <<cfg, heap, error, ret, it, inf>>

\* lines 137-139, then lines 59-60 of load_data_from_stream(frozen_vocab=True)
ValidationDataset__init__(vstream) ==
    /\ Idle
    /\ pc["train"] = "ready"
    /\ pc["val"] = "new"
    /\ ds' = [ds EXCEPT !["val"] =
                 [NoFields EXCEPT !.src_vocab = ds["train"].src_vocab,
                                  !.tgt_vocab = ds["train"].tgt_vocab,
                                  !.frozen_vocab = TRUE]]
    /\ stream' = [stream EXCEPT !["val"] = vstream]
    /\ pc' = [pc EXCEPT !["val"] = "reading"]
    /\ UNCHANGED <<cfg, heap, error, ret, it, inf>>

(* ---------------- vocabulary lookups ---------------- *)
LookupTokens == { <<"a">>, <<"c">>, tokPAD }

\* every id a vocabulary of this model can hold, and one it cannot
LookupIds == 0..(Cardinality(DOMAIN Dataset_CONSTANTS) + Cardinality(LookupTokens))

\* lines 45-48
src_lookup(self, ch, frozen) ==
    /\ Idle
    /\ pc[self] = "ready"
    /\ LET r == ds[self].src_vocab
       IN  IF frozen = FALSE
           THEN /\ heap' = [heap EXCEPT ![r] = defaultdict_after(@, ch)]
                /\ ret' = [op |-> "src_lookup", self |-> self, ch |-> ch,
                           frozen |-> frozen, value |-> heap'[r][ch]]
           ELSE /\ UNCHANGED heap
                /\ ret' = [op |-> "src_lookup", self |-> self, ch |-> ch,
                           frozen |-> frozen, value |-> dict_get(heap[r], ch, UNK)]
    /\ UNCHANGED <<cfg, ds, pc, stream, error, it, inf>>

\* lines 54-55: {i: ch for ch, i in d.items()}
inverse(d) ==
    [i \in { d[ch] : ch \in DOMAIN d } |-> CHOOSE ch \in DOMAIN d : d[ch] = i]

\* tgt_reverse_lookup that inverts the source vocabulary
tgt_reverse_lookup_src(self, idx) ==
    /\ Idle
    /\ pc[self] = "ready"
    /\ LET inv == IF ds[self].has_tgt_inv_vocab
                  THEN ds[self].tgt_inv_vocab
                  ELSE inverse(heap[ds[self].src_vocab])
       IN  /\ ds' = [ds EXCEPT ![self].has_tgt_inv_vocab = TRUE,
                               ![self].tgt_inv_vocab = inv]
           /\ ret' = [op |-> "tgt_reverse_lookup", self |-> self, idx |-> idx,
                      value |-> dict_get(inv, idx, UNKMarker)]
    /\ UNCHANGED <<cfg, heap, pc, stream, error, it, inf>>

\* lines 50-56
tgt_reverse_lookup(self, idx) ==
    /\ Idle
    /\ pc[self] = "ready"
    /\ LET inv == IF ds[self].has_tgt_inv_vocab
                  THEN ds[self].tgt_inv_vocab
                  ELSE inverse(heap[ds[self].tgt_vocab])
       IN  /\ ds' = [ds EXCEPT ![self].has_tgt_inv_vocab = TRUE,
                               ![self].tgt_inv_vocab = inv]
           /\ ret' = [op |-> "tgt_reverse_lookup", self |-> self, idx |-> idx,
                      value |-> dict_get(inv, idx, UNKMarker)]
    /\ UNCHANGED <<cfg, heap, pc, stream, error, it, inf>>

(* ---------------- batches ---------------- *)
\* list(...) of a comprehension: the elements are computed once
list(f) == SubSeq(f, 1, Len(f))

\* sorted(xs, key=...) is stable: the 1-based position of element j of a
\* list whose keys are the sequence keys
SortedPos(keys, j) ==
    1 + Cardinality({ k \in 1..Len(keys) :
                        keys[k] < keys[j] \/ (keys[k] = keys[j] /\ k < j) })

sorted(xs, keys) ==
    list([p \in 1..Len(xs) |-> xs[CHOOSE j \in 1..Len(xs) : SortedPos(keys, j) = p]])

\* torch.LongTensor(rows).transpose(0, 1): [seq_len x batch]
transpose(rows) ==
    [t \in 1..Len(rows[1]) |-> [j \in 1..Len(rows) |-> rows[j][t]]]

\* lines 92-103 for the drawn indices idx0 (0-based, a sequence)
random_batch_of(f, idx0) ==
    LET idx == sorted(idx0, list([j \in 1..Len(idx0) |-> 0 - f.src_seqlen[idx0[j] + 1]]))
    IN  [op |-> "get_random_batch",
         src |-> transpose(list([j \in 1..Len(idx) |-> f.samples[idx[j] + 1][1]])),
         tgt |-> transpose(list([j \in 1..Len(idx) |-> f.samples[idx[j] + 1][2]])),
         src_len |-> [j \in 1..Len(idx) |-> f.src_seqlen[idx[j] + 1]],
         tgt_len |-> [j \in 1..Len(idx) |-> f.tgt_seqlen[idx[j] + 1]]]

\* lines 90-103; line 91 draws batch_size indices with replacement
get_random_batch(self, batch_size) ==
    /\ Idle
    /\ pc[self] = "ready"
    /\ \E idx0 \in [1..batch_size -> 0..(Len(ds[self].samples) - 1)] :
          ret' = random_batch_of(ds[self], idx0)
                     @@ [self |-> self, batch_size |-> batch_size]
    /\ UNCHANGED <<cfg, heap, ds, pc, stream, error, it, inf>>

\* lines 106-108 without the extra batch for the remainder
batch_count_floor(n, batch_size) == n \div batch_size

\* lines 106-108
batch_count_of(n, batch_size) ==
    IF (n \div batch_size) * batch_size < n
    THEN (n \div batch_size) + 1
    ELSE n \div batch_size

\* lines 110-125 without the sort of line 119
batch_of_unsorted(f, i, batch_size) ==
    LET start == i * batch_size
        n     == Len(f.samples)
        end   == IF (i + 1) * batch_size < n THEN (i + 1) * batch_size ELSE n
        batch == list([j \in 1..(end - start) |->
                    <<f.samples[start + j][1], f.samples[start + j][2],
                      f.src_seqlen[start + j], f.tgt_seqlen[start + j]>>])
    IN  [start |-> start, end |-> end,
         src |-> transpose([j \in 1..Len(batch) |-> batch[j][1]]),
         tgt |-> transpose([j \in 1..Len(batch) |-> batch[j][2]]),
         src_len |-> [j \in 1..Len(batch) |-> batch[j][3]],
         tgt_len |-> [j \in 1..Len(batch) |-> batch[j][4]]]

\* lines 110-125 for loop index i: the yielded tuple, with the locals start, end
batch_of(f, i, batch_size) ==
    LET start == i * batch_size
        n     == Len(f.samples)
        end   == IF (i + 1) * batch_size < n THEN (i + 1) * batch_size ELSE n
        batch == list([j \in 1..(end - start) |->
                    <<f.samples[start + j][1], f.samples[start + j][2],
                      f.src_seqlen[start + j], f.tgt_seqlen[start + j]>>])
        srt   == sorted(batch, list([j \in 1..Len(batch) |-> 0 - batch[j][3]]))
    IN  [start |-> start, end |-> end,
         src |-> transpose([j \in 1..Len(srt) |-> srt[j][1]]),
         tgt |-> transpose([j \in 1..Len(srt) |-> srt[j][2]]),
         src_len |-> [j \in 1..Len(srt) |-> srt[j][3]],
         tgt_len |-> [j \in 1..Len(srt) |-> srt[j][4]]]

\* calling batched_iter(batch_size) creates the generator; nothing runs yet
batched_iter(self, batch_size) ==
    /\ Idle
    /\ pc[self] = "ready"
    /\ it' = [state |-> "created", self |-> self, batch_size |-> batch_size,
              batch_count |-> 0, i |-> 0, batches |-> <<>>]
    /\ ret' = [op |-> "batched_iter", self |-> self, batch_size |-> batch_size]
    /\ UNCHANGED <<cfg, heap, ds, pc, stream, error, inf>>

\* next() on the generator: lines 106-108 on the first call, then one
\* iteration of the loop of lines 109-132 or the end of the loop; the
\* consumer collects what is yielded in it.batches
batched_iter_next ==
    /\ it.state \in {"created", "suspended"}
    /\ LET f  == ds[it.self]
           bc == IF it.state = "created"
                 THEN batch_count_of(Len(f.samples), it.batch_size)
                 ELSE it.batch_count
           i  == IF it.state = "created" THEN 0 ELSE it.i + 1
       IN  IF i < bc
           THEN it' = [it EXCEPT !.state = "suspended", !.batch_count = bc, !.i = i,
                                 !.batches = Append(@, batch_of(f, i, it.batch_size))]
           ELSE it' = [it EXCEPT !.state = "done", !.batch_count = bc, !.i = i]
    /\ UNCHANGED <<cfg, heap, ds, pc, stream, error, ret, inf>>

\* the consumer is done with the generator and lets go of it
batched_iter_drop ==
    /\ it.state = "done"
    /\ it' = NoIter
    /\ UNCHANGED <<cfg, heap, ds, pc, stream, error, ret, inf>>

(* ---------------- InferenceDataset ---------------- *)
\* the dict after the loop of lines 152-154 over the first n lines of the file
RECURSIVE vocab_of(_, _)
vocab_of(file, n) ==
    IF n = 0 THEN <<>>
    ELSE LET parts == split(rstrip(file[n], NL), TAB)
         IN  dict_setitem(vocab_of(file, n - 1), parts[1], parts[2])

\* lines 145-146 and 149-154
InferenceDataset__init__ ==
    /\ inf.state = "new"
    /\ IF \E n \in 1..Len(inf.src_vocab_file) :
              Len(split(rstrip(inf.src_vocab_file[n], NL), TAB)) # 2
       THEN inf' = [inf EXCEPT !.state = "failed", !.error = "ValueError"]
       ELSE inf' = [inf EXCEPT !.state = "loading",
                       !.src_vocab = vocab_of(inf.src_vocab_file, Len(inf.src_vocab_file))]
    /\ UNCHANGED <<cfg, heap, ds, pc, stream, error, ret, it>>

\* lines 156-160 sorting by ascending length
inf_load_data_from_stream_ascending ==
    /\ inf.state = "loading"
    /\ LET raw    == list([k \in 1..Len(inf.stream) |-> rstrip(inf.stream[k], NL)])
           pairs  == list([k \in 1..Len(raw) |-> <<k - 1, raw[k]>>])
           srt    == sorted(pairs, list([k \in 1..Len(raw) |-> Len(raw[k])]))
       IN  IF raw = <<>>
           THEN inf' = [inf EXCEPT !.state = "failed", !.error = "ValueError",
                                   !.raw_samples = raw]
           ELSE inf' = [inf EXCEPT !.state = "ready", !.raw_samples = raw,
                                   !.len_mapping = [k \in 1..Len(srt) |-> srt[k][1]],
                                   !.samples = [k \in 1..Len(srt) |-> srt[k][2]]]
    /\ UNCHANGED <<cfg, heap, ds, pc, stream, error, ret, it>>

\* lines 156-160; zip(*[]) of an empty stream cannot be unpacked into two names
inf_load_data_from_stream ==
    /\ inf.state = "loading"
    /\ LET raw    == list([k \in 1..Len(inf.stream) |-> rstrip(inf.stream[k], NL)])
           pairs  == list([k \in 1..Len(raw) |-> <<k - 1, raw[k]>>])
           srt    == sorted(pairs, list([k \in 1..Len(raw) |-> 0 - Len(raw[k])]))
       IN  IF raw = <<>>
           THEN inf' = [inf EXCEPT !.state = "failed", !.error = "ValueError",
                                   !.raw_samples = raw]
           ELSE inf' = [inf EXCEPT !.state = "ready", !.raw_samples = raw,
                                   !.len_mapping = [k \in 1..Len(srt) |-> srt[k][1]],
                                   !.samples = [k \in 1..Len(srt) |-> srt[k][2]]]
    /\ UNCHANGED <<cfg, heap, ds, pc, stream, error, ret, it>>

(* ---------------- specifications ---------------- *)
Load(self) ==
    \/ ReadLine(self)
    \/ ComputeLengths(self)
    \/ EncodeSample(self)
    \/ FinishLoad(self)

\* a training Dataset and its vocabulary operations
Next ==
    \/ Dataset__init__
    \/ Load("train")
    \/ \E ch \in LookupTokens, frozen \in BOOLEAN : src_lookup("train", ch, frozen)
    \/ \E idx \in LookupIds : tgt_reverse_lookup("train", idx)

Spec == Init /\ [][Next]_vars

\* a training Dataset and its batching operations
InitBatch ==
    /\ cfg \in [share_vocab : BOOLEAN, input_size : {0}, output_size : {0}]
    /\ heap = <<>>
    /\ ds = [o \in Objs |-> NoFields]
    /\ pc = [o \in Objs |-> "new"]
    /\ stream \in { [o \in Objs |-> IF o = "train" THEN s ELSE <<>>] :
                       s \in BatchStreamsUpTo(MaxBatchLines) }
    /\ error = [o \in Objs |-> "none"]
    /\ ret = NoRet
    /\ it = NoIter
    /\ inf = NoInf

NextBatch ==
    \/ Dataset__init__
    \/ Load("train")
    \/ \E batch_size \in 1..MaxBatch : get_random_batch("train", batch_size)
    \/ \E batch_size \in 1..MaxBatch : batched_iter("train", batch_size)
    \/ batched_iter_next
    \/ batched_iter_drop

BatchSpec == InitBatch /\ [][NextBatch]_vars

\* a training Dataset, then a ValidationDataset made from it and its operations
NextVal ==
    \/ Dataset__init__
    \/ \E self \in Objs : Load(self)
    \/ \E vstream \in StreamsUpTo(MaxValLines) : ValidationDataset__init__(vstream)
    \/ \E ch \in LookupTokens, frozen \in BOOLEAN : src_lookup("val", ch, frozen)
    \/ \E idx \in LookupIds : tgt_reverse_lookup("val", idx)

ValSpec == Init /\ [][NextVal]_vars

\* an InferenceDataset
InitInf ==
    /\ cfg = [share_vocab |-> FALSE, input_size |-> 0, output_size |-> 0]
    /\ heap = <<>>
    /\ ds = [o \in Objs |-> NoFields]
    /\ pc = [o \in Objs |-> "new"]
    /\ stream = [o \in Objs |-> <<>>]
    /\ error = [o \in Objs |-> "none"]
    /\ ret = NoRet
    /\ it = NoIter
    /\ inf \in { [NoInf EXCEPT !.state = "new", !.stream = s, !.src_vocab_file = v] :
                    s \in InfStreamsUpTo(MaxInfLines), v \in VocabFiles }

NextInf ==
    \/ InferenceDataset__init__
    \/ inf_load_data_from_stream

InfSpec == InitInf /\ [][NextInf]_vars

(* ======================= properties ======================= *)
Ready(o) == pc[o] = "ready"

\* the mapping object behind a reference held by a dataset
SrcVocab(o) == heap[ds[o].src_vocab]
TgtVocab(o) == heap[ds[o].tgt_vocab]

\* the id a load gives a token: a lookup in growing mode, get-or-UNK when frozen
IdAtLoad(o, d, tok) == IF ds[o].frozen_vocab THEN dict_get(d, tok, UNK) ELSE d[tok]

\* no operation has run since the last load ended, so the vocabularies are
\* still the ones that load left
FreshlyLoaded == ret.op = "none"

C1_Shape(o) ==
    LET f   == ds[o]
        raw == f.raw_samples
        N   == Len(raw)
    IN  /\ N >= 1
        /\ Len(f.samples) = N
        /\ \A i \in 1..N : Len(raw[i][1]) <= f.src_maxlen
        /\ \E i \in 1..N : Len(raw[i][1]) = f.src_maxlen
        /\ \A i \in 1..N : Len(raw[i][2]) + 1 <= f.tgt_maxlen
        /\ \E i \in 1..N : Len(raw[i][2]) + 1 = f.tgt_maxlen
        /\ \A i \in 1..N :
              /\ Len(f.samples[i][1]) = f.src_maxlen
              /\ Len(f.samples[i][2]) = f.tgt_maxlen
              /\ \A j \in (Len(raw[i][1]) + 1)..f.src_maxlen : f.samples[i][1][j] = PAD
              /\ f.samples[i][2][Len(raw[i][2]) + 1] = EOS
              /\ \A j \in (Len(raw[i][2]) + 2)..f.tgt_maxlen : f.samples[i][2][j] = PAD

C1_Ids(o) ==
    LET f   == ds[o]
        raw == f.raw_samples
    IN  \A i \in 1..Len(raw) :
           /\ \A j \in 1..Len(raw[i][1]) :
                 f.samples[i][1][j] = IdAtLoad(o, SrcVocab(o), raw[i][1][j])
           /\ \A j \in 1..Len(raw[i][2]) :
                 f.samples[i][2][j] = IdAtLoad(o, TgtVocab(o), raw[i][2][j])

C3_Absent(role) ==
    LET raw == ds["val"].raw_samples
        d   == IF role = 1 THEN SrcVocab("val") ELSE TgtVocab("val")
    IN  { <<i, j>> \in (1..Len(raw)) \X (1..2) :
              j <= Len(raw[i][role]) /\ raw[i][role][j] \notin DOMAIN d }

C3_State ==
    pc["val"] # "new" =>
        /\ ds["val"].src_vocab = ds["train"].src_vocab
        /\ ds["val"].tgt_vocab = ds["train"].tgt_vocab
        /\ (Ready("val") /\ FreshlyLoaded) =>
              \A role \in 1..2 : \A p \in C3_Absent(role) :
                  ds["val"].samples[p[1]][role][p[2]] = UNK

C3_Step ==
    /\ (pc["train"] = "ready" /\ pc["val"] \in {"new", "reading", "encoding"})
          => heap' = heap
    /\ (ret' # ret /\ ret'.op = "src_lookup" /\ ret'.frozen) => heap' = heap
    /\ (ret'.op = "src_lookup" /\ ret'.frozen /\ ret'.ch \notin DOMAIN heap[ds[ret'.self].src_vocab])
          => ret'.value = UNK

\* C3: a ValidationDataset holds the very mappings of its training Dataset;
\* constructing it (loading its stream) and any src_lookup with frozen=True leave
\* every vocabulary as it was, and every validation token the vocabulary does
\* not hold is encoded as UNK.
C3_FrozenNeverMutates == [](C3_State) /\ [][C3_Step]_vars

\* a loaded ValidationDataset with a token its vocabulary lacks, encoded as UNK
C3_Witness ==
    /\ Ready("val")
    /\ FreshlyLoaded
    /\ C3_Absent(1) # {}
    /\ C3_Absent(2) # {}
    /\ \A p \in C3_Absent(1) : ds["val"].samples[p[1]][1][p[2]] = UNK
    /\ \A p \in C3_Absent(2) : ds["val"].samples[p[1]][2][p[2]] = UNK

\* C7: loading an empty stream fails with an EmptyDatasetError and never
\* yields a dataset without samples.
C7_EmptyStreamError ==
    \A o \in Objs :
        /\ (pc[o] = "failed" /\ stream[o] = <<>>) => error[o] = "EmptyDatasetError"
        /\ Ready(o) => Len(ds[o].samples) >= 1

\* C8: a line without a tab makes the load fail with a FormatError when the
\* line is read; nothing is encoded, the vocabulary keeps the entries it had
\* before the load and the lines read before are not kept as samples.
C8_MalformedLineError ==
    \A o \in Objs :
        (pc[o] = "failed" /\ Len(ds[o].raw_samples) < Len(stream[o])) =>
            /\ error[o] = "FormatError"
            /\ ds[o].samples = <<>>
            /\ o = "train" => \A r \in DOMAIN heap : heap[r] = Dataset_CONSTANTS
            /\ o = "val" => /\ Cardinality(DOMAIN SrcVocab(o)) = cfg.input_size
                            /\ Cardinality(DOMAIN TgtVocab(o)) = cfg.output_size

\* the tokens a vocabulary is asked for while the first n samples are encoded,
\* in the order asked: per sample the source tokens (if the vocabulary serves
\* the source role) and then the target tokens (if it serves the target role)
RECURSIVE ReadOrder(_, _, _)
ReadOrder(raw, n, roles) ==
    IF n = 0 THEN <<>>
    ELSE ReadOrder(raw, n - 1, roles)
            \o (IF 1 \in roles THEN raw[n][1] ELSE <<>>)
            \o (IF 2 \in roles THEN raw[n][2] ELSE <<>>)

\* a sequence without the repetitions of its elements
RECURSIVE Distinct(_)
Distinct(q) ==
    IF q = <<>> THEN <<>>
    ELSE LET d == Distinct(SubSeq(q, 1, Len(q) - 1))
         IN  IF \E k \in 1..Len(d) : d[k] = q[Len(q)] THEN d ELSE Append(d, q[Len(q)])

RolesOf(o, r) ==
    (IF ds[o].src_vocab = r THEN {1} ELSE {}) \cup (IF ds[o].tgt_vocab = r THEN {2} ELSE {})

\* C2: the k-th distinct token read from the data, counted per vocabulary in
\* order of first appearance, is given id 3 + k: the data's tokens get the ids
\* 4, 5, 6, ... after the four reserved ids.
C2_KthDistinctTokenId ==
    Ready("train") =>
        \A r \in DOMAIN heap :
            LET order == Distinct(ReadOrder(ds["train"].raw_samples,
                                            Len(ds["train"].raw_samples),
                                            RolesOf("train", r)))
            IN  \A k \in 1..Len(order) : heap[r][order[k]] = 3 + k

\* the first half of C2: a growing lookup of an absent token inserts it with the
\* size of the mapping as its id, and a lookup of a present token returns its
\* id and changes nothing
C2_GrowingLookup ==
    [][(ret' # ret /\ ret'.op = "src_lookup" /\ ~ret'.frozen) =>
          LET r == ds[ret'.self].src_vocab
          IN  IF ret'.ch \in DOMAIN heap[r]
              THEN heap' = heap /\ ret'.value = heap[r][ret'.ch]
              ELSE /\ ret'.value = Cardinality(DOMAIN heap[r])
                   /\ DOMAIN heap'[r] = DOMAIN heap[r] \cup {ret'.ch}
                   /\ heap'[r][ret'.ch] = ret'.value
                   /\ \A t \in DOMAIN heap[r] : heap'[r][t] = heap[r][t]]_vars

\* the places <<sample, position>> of the tokens of one role in the samples
\* encoded so far, and those tokens
TokensAt(o, role) ==
    { <<i, j>> \in (1..Len(ds[o].samples)) \X (1..2) : j <= Len(ds[o].raw_samples[i][role]) }

RoleTokens(o, role) == { ds[o].raw_samples[p[1]][role][p[2]] : p \in TokensAt(o, role) }

C6_Shared ==
    /\ ds["train"].src_vocab = ds["train"].tgt_vocab
    /\ \A p \in TokensAt("train", 1) : \A q \in TokensAt("train", 2) :
          ds["train"].raw_samples[p[1]][1][p[2]] = ds["train"].raw_samples[q[1]][2][q[2]]
             => ds["train"].samples[p[1]][1][p[2]] = ds["train"].samples[q[1]][2][q[2]]
    /\ ret.op = "src_lookup" =>
          \A q \in TokensAt("train", 2) :
              ds["train"].raw_samples[q[1]][2][q[2]] = ret.ch
                 => ret.value = ds["train"].samples[q[1]][2][q[2]]
    /\ Ready("train") => cfg.input_size = cfg.output_size

C6_Separate ==
    /\ ds["train"].src_vocab # ds["train"].tgt_vocab
    /\ DOMAIN TgtVocab("train") = DOMAIN Dataset_CONSTANTS \cup RoleTokens("train", 2)
    /\ FreshlyLoaded =>
          DOMAIN SrcVocab("train") = DOMAIN Dataset_CONSTANTS \cup RoleTokens("train", 1)

\* C6: with share_vocab the source and the target vocabulary are one mapping at
\* every point during and after loading: a token gets the same id through either
\* role, and input_size equals output_size; without it the mappings are
\* independent and an insertion into one never changes the other.
C6_SharedVocab ==
    pc["train"] # "new" => IF cfg.share_vocab THEN C6_Shared ELSE C6_Separate

\* shared vocabulary: a token first inserted as a target token is then looked
\* up through the source role and has the id its target rows hold
C6_Witness ==
    /\ cfg.share_vocab
    /\ Ready("train")
    /\ cfg.input_size > 4
    /\ ret.op = "src_lookup"
    /\ ret.ch \in RoleTokens("train", 2) \ RoleTokens("train", 1)
    /\ ret.value >= 4

\* the target vocabulary is as large as it was when the inverse map was built
C9_NotGrown(o) ==
    Cardinality(DOMAIN ds[o].tgt_inv_vocab) = Cardinality(DOMAIN TgtVocab(o))

C9_State ==
    \A o \in Objs :
        /\ (ret.op = "tgt_reverse_lookup" /\ ret.self = o) =>
              /\ ds[o].has_tgt_inv_vocab
              /\ ret.idx \notin DOMAIN ds[o].tgt_inv_vocab => ret.value = UNKMarker
        /\ (ds[o].has_tgt_inv_vocab /\ C9_NotGrown(o)) =>
              \A p \in TokensAt(o, 2) :
                  LET id == ds[o].samples[p[1]][2][p[2]]
                      t  == ds[o].raw_samples[p[1]][2][p[2]]
                  IN  id \notin {PAD, UNK} =>
                         /\ dict_get(ds[o].tgt_inv_vocab, id, UNKMarker) = t
                         /\ (ret.op = "tgt_reverse_lookup" /\ ret.self = o /\ ret.idx = id)
                               => ret.value = t

C9_Step ==
    \A o \in Objs :
        /\ ds[o].has_tgt_inv_vocab =>
              /\ ds'[o].has_tgt_inv_vocab
              /\ ds'[o].tgt_inv_vocab = ds[o].tgt_inv_vocab
        /\ (~ds[o].has_tgt_inv_vocab /\ ds'[o].has_tgt_inv_vocab) =>
              /\ DOMAIN ds'[o].tgt_inv_vocab = { TgtVocab(o)[ch] : ch \in DOMAIN TgtVocab(o) }
              /\ \A ch \in DOMAIN TgtVocab(o) : ds'[o].tgt_inv_vocab[TgtVocab(o)[ch]] = ch

\* C9: tgt_reverse_lookup builds the inverse map from the target vocabulary on
\* its first call and reuses it afterwards; while the target vocabulary has not
\* grown since, the reverse lookup of the id of every target token encoded
\* during loading returns that token, for every id but PAD and UNK, and an id
\* the inverse map lacks returns the marker <UNK>.
C9_ReverseLookup == [](C9_State) /\ [][C9_Step]_vars

\* a reverse lookup of the id of a data token of the target side returned it
C9_Witness ==
    /\ ret.op = "tgt_reverse_lookup"
    /\ ret.idx >= 4
    /\ C9_NotGrown("train")
    /\ \E p \in TokensAt("train", 2) :
          /\ ds["train"].samples[p[1]][2][p[2]] = ret.idx
          /\ ret.value = ds["train"].raw_samples[p[1]][2][p[2]]
    /\ ~cfg.share_vocab
    /\ SrcVocab("train") # TgtVocab("train")

\* column j of a [seq_len x batch] matrix
Col(m, j) == [t \in 1..Len(m) |-> m[t][j]]

NonIncreasing(q) == \A j \in 1..(Len(q) - 1) : q[j] >= q[j + 1]

\* column j of the batch b is sample i (1-based) of f, with its recorded lengths
IsSample(f, b, j, i) ==
    /\ Col(b.src, j) = f.samples[i][1]
    /\ Col(b.tgt, j) = f.samples[i][2]
    /\ b.src_len[j] = f.src_seqlen[i]
    /\ b.tgt_len[j] = f.tgt_seqlen[i]

Bijections(n) == { p \in [1..n -> 1..n] : \A x, y \in 1..n : p[x] = p[y] => x = y }

\* C4: for batch_size >= 1 and N samples batched_iter yields ceil(N / batch_size)
\* batches, batch k is drawn from the indices [k*batch_size, min((k+1)*batch_size, N)),
\* and over a full iteration every sample index is in exactly one batch, once.
C4_SequentialCoverage ==
    it.state \in {"suspended", "done"} =>
        LET f  == ds[it.self]
            N  == Len(f.samples)
            bs == it.batch_size
        IN  /\ \A k \in 1..Len(it.batches) :
                  LET b == it.batches[k]
                      n == b.end - b.start
                  IN  /\ b.start = (k - 1) * bs
                      /\ b.end = IF k * bs < N THEN k * bs ELSE N
                      /\ n >= 1
                      /\ Len(b.src_len) = n
                      /\ \E p \in Bijections(n) :
                            \A j \in 1..n : /\ Col(b.src, j) = f.samples[b.start + p[j]][1]
                                            /\ Col(b.tgt, j) = f.samples[b.start + p[j]][2]
            /\ it.state = "done" =>
                  /\ Len(it.batches) = (N + bs - 1) \div bs
                  /\ \A i \in 0..(N - 1) :
                        Cardinality({ k \in 1..Len(it.batches) :
                            it.batches[k].start <= i /\ i < it.batches[k].end }) = 1

\* a finished iteration over three samples in batches of two: the last is smaller
C4_Witness ==
    /\ it.state = "done"
    /\ it.batch_size = 2
    /\ Len(ds[it.self].samples) = 3
    /\ Len(it.batches) = 2
    /\ Len(it.batches[2].src_len) = 1

\* C5: in every batch of batched_iter and of get_random_batch the samples are in
\* order of non-increasing true source length, and the source and target length
\* at position j are the recorded lengths of the sample whose rows are column j.
C5_BatchOrder ==
    /\ \A k \in 1..Len(it.batches) :
          LET b == it.batches[k]
          IN  /\ NonIncreasing(b.src_len)
              /\ \A j \in 1..Len(b.src_len) :
                    \E i \in (b.start + 1)..b.end : IsSample(ds[it.self], b, j, i)
    /\ ret.op = "get_random_batch" =>
          /\ Len(ret.src_len) = ret.batch_size
          /\ Len(ret.tgt_len) = ret.batch_size
          /\ NonIncreasing(ret.src_len)
          /\ \A j \in 1..Len(ret.src_len) :
                \E i \in 1..Len(ds[ret.self].samples) : IsSample(ds[ret.self], ret, j, i)

\* a yielded batch whose first column is not the first sample of its range:
\* the sort moved a longer source to the front
C5_Witness ==
    \E k \in 1..Len(it.batches) :
        LET b == it.batches[k]
        IN  /\ Len(b.src_len) = 2
            /\ b.src_len[1] > b.src_len[2]
            /\ ds[it.self].src_seqlen[b.start + 1] = b.src_len[2]
            /\ b.tgt_len[1] # b.tgt_len[2]

\* C10: after an InferenceDataset loads N >= 1 lines, samples holds the N lines
\* by non-increasing character length, len_mapping is a permutation of 0..N-1
\* and samples[k] is the input line at index len_mapping[k]; lines of 5, 2 and 8
\* characters come out as line 3, line 1, line 2 with indices 2, 0, 1.
C10_InferenceOrder ==
    inf.state = "ready" =>
        LET N == Len(inf.stream)
        IN  /\ N >= 1
            /\ Len(inf.samples) = N
            /\ Len(inf.len_mapping) = N
            /\ \A k \in 1..(N - 1) : Len(inf.samples[k]) >= Len(inf.samples[k + 1])
            /\ { inf.len_mapping[k] : k \in 1..N } = 0..(N - 1)
            /\ \A k \in 1..N :
                  inf.samples[k] = rstrip(inf.stream[inf.len_mapping[k] + 1], NL)
            /\ (N = 3 /\ Len(rstrip(inf.stream[1], NL)) = 5
                      /\ Len(rstrip(inf.stream[2], NL)) = 2
                      /\ Len(rstrip(inf.stream[3], NL)) = 8)
                  => inf.len_mapping = <<2, 0, 1>>

\* the scenario of lines of 5, 2 and 8 characters, loaded
C10_Witness ==
    /\ inf.state = "ready"
    /\ Len(inf.stream) = 3
    /\ Len(inf.raw_samples[1]) = 5
    /\ Len(inf.raw_samples[2]) = 2
    /\ Len(inf.raw_samples[3]) = 8
    /\ inf.len_mapping = <<2, 0, 1>>
    /\ \E k \in 1..Len(inf.samples[2]) : inf.samples[2][k] = TAB

====
